---- MODULE Spec2Model ----
(***************************************************************************)
(* A model of the Bloom filter of azsefi/Filters.  The repository holds    *)
(* two definitions of BloomFilter: the library one (src/bloom.rs, with its *)
(* tests) and a second one in the demonstration program (src/main.rs).     *)
(* They differ in get_bit_count only; the variable def says which of the   *)
(* two a filter was built from.                                            *)
(*                                                                         *)
(* Floating point.  false_positive_rate is an f64; the model carries it as *)
(* a fraction num/den and computes log2().ceil() from the position of the  *)
(* fraction between powers of two.  The special values of f64 (NaN, +inf,  *)
(* -inf) are kept, and the `as u16` cast saturates and sends NaN to 0.     *)
(* get_bit_count multiplies in f64; for every count and hash count of the  *)
(* model the f64 product truncates to the same integer as the exact        *)
(* product count * 144 * n_hashes / 10, which is what the model computes.  *)
(*                                                                         *)
(* Hashing.  RandomState::new() hands out the thread's random key pair and *)
(* then adds one to its first key, so the filter's hashers carry the keys  *)
(* k, k+1, k+2, ... for a random k.  DefaultHasher (SipHash) is library    *)
(* code: the model puts a fixed mixing function in its place, which like   *)
(* SipHash is a function of the key and the value alone.                   *)
(*                                                                         *)
(* A panic (the remainder by zero in get_bits) ends the run: the state     *)
(* "panicked" has no successor.                                            *)
(***************************************************************************)
EXTENDS Integers, Sequences, FiniteSets

\* ---- bounds of the model
MaxValue == 2        \* the values hashed are 0..MaxValue
MaxKey == 1          \* the thread's first random key is 0..MaxKey
MaxCount == 2        \* expected_item_count is 0..MaxCount, or DemoCount
HashMod == 65536     \* the hash values are 0..HashMod-1

\* ---- program constants
DemoCount == 100     \* the expected_item_count of the test and of main
U16Max == 65535      \* u16::MAX, the widest n_hashes

Values == 0 .. MaxValue
Keys == 0 .. MaxKey
Counts == (0 .. MaxCount) \cup {DemoCount}
Defs == {"bloom", "main"}

Rate(n, d) == [num |-> n, den |-> d]
\* 0.1, 0.25, 0.3, 0.5, 0.75 inside (0,1); 1, 1.5 and 3 above; a negative rate.
\* The rate 0 is left out of the runs: get_hash_count gives it U16Max hashers,
\* and a filter of 65535 hashers is beyond what the runs can enumerate.
Rates == {Rate(1, 10), Rate(1, 4), Rate(3, 10), Rate(1, 2), Rate(3, 4),
          Rate(1, 1), Rate(3, 2), Rate(3, 1), Rate(-1, 2)}
ValidRate(r) == r.num > 0 /\ r.num < r.den

VARIABLES pc, def, false_positive_rate, expected_item_count,
          n_hashes, n_bits, bit_set, states, inserted, built, last, computed

vars == <<pc, def, false_positive_rate, expected_item_count,
          n_hashes, n_bits, bit_set, states, inserted, built, last, computed>>

\* ---- f64 values that are integers or special
Fin(v) == [k |-> "fin", v |-> v]
NaN == [k |-> "nan", v |-> 0]
PosInf == [k |-> "inf", v |-> 0]
NegInf == [k |-> "ninf", v |-> 0]

RECURSIVE Down(_, _)
\* the largest j with n * 2^j <= d, for 0 < n <= d
Down(n, d) == IF 2 * n <= d THEN 1 + Down(2 * n, d) ELSE 0

RECURSIVE Up(_, _)
\* the smallest j with n <= d * 2^j, for 0 < d
Up(n, d) == IF n <= d THEN 0 ELSE 1 + Up(n, 2 * d)

\* f.log2().ceil(): NaN below 0, -inf at 0
log2_ceil(r) ==
    IF r.num < 0 THEN NaN
    ELSE IF r.num = 0 THEN NegInf
    ELSE IF r.num <= r.den THEN Fin(-Down(r.num, r.den))
    ELSE Fin(Up(r.num, r.den))

\* unary minus on f64
neg(x) ==
    IF x.k = "fin" THEN Fin(-x.v)
    ELSE IF x.k = "inf" THEN NegInf
    ELSE IF x.k = "ninf" THEN PosInf
    ELSE NaN

\* f64 as u16: saturating, NaN to 0
as_u16(x) ==
    IF x.k = "nan" THEN 0
    ELSE IF x.k = "inf" THEN U16Max
    ELSE IF x.k = "ninf" THEN 0
    ELSE IF x.v < 0 THEN 0
    ELSE IF x.v > U16Max THEN U16Max
    ELSE x.v

\* mutant: the minus applied before the ceiling, (-rate.log2()).ceil() as u16
get_hash_count_ceil_of_neg(rate) ==
    IF rate.num > 0 /\ rate.num < rate.den THEN Up(rate.den, rate.num) ELSE 0

\* mutant: the hash count clamped to one hasher at least
get_hash_count_at_least_one(rate) ==
    IF as_u16(neg(log2_ceil(rate))) = 0 THEN 1 ELSE as_u16(neg(log2_ceil(rate)))

\* -false_positive_rate.log2().ceil() as u16: the minus applies to the ceiling
get_hash_count(rate) == as_u16(neg(log2_ceil(rate)))

\* bloom.rs: ((expected_item_count as f64) * (14.4 as f64) * (n_hashes as f64)) as usize
get_bit_count(hashes, count) == (count * 144 * hashes) \div 10

\* main.rs: (expected_item_count as usize) * (1.44 as usize) * (n_hashes as usize)
get_bit_count_main(hashes, count) == count * (144 \div 100) * hashes

\* value.hash(&mut hasher); hasher.finish(), for the hasher built from key
hash(value, key) ==
    ((key + 1) * 7919 + (value + 1) * 104729 + (key + 1) * (value + 1) * 31) % HashMod

\* mutant: the hashers built anew at each call, from the thread's key, which
\* has moved on by then
get_bits_fresh_hashers(sts, value, nbits) ==
    [i \in 1 .. Len(sts) |-> hash(value, sts[i] + Cardinality(inserted)) % nbits]

\* mutant: the hash values used as indices, without the remainder
get_bits_no_remainder(sts, value, nbits) ==
    [i \in 1 .. Len(sts) |-> hash(value, sts[i])]

\* the indices of value, in the order of the hashers; n_bits = 0 is a panic,
\* which the callers test for before they use get_bits
get_bits(sts, value, nbits) ==
    [i \in 1 .. Len(sts) |-> hash(value, sts[i]) % nbits]

\* the remainder by zero in get_bits: some hasher, and no bit
Panics == Len(states) > 0 /\ n_bits = 0

\* computed after a call of get_bits for value: the sequence its iterator
\* stands for joins those the value was given so far (none when it panics)
yielded(value) ==
    IF Panics THEN computed
    ELSE [computed EXCEPT ![value] = @ \cup {get_bits(states, value, n_bits)}]

Range(s) == {s[i] : i \in 1 .. Len(s)}

NoOp == [op |-> "none", value |-> 0, result |-> 0]

Init ==
    /\ pc = "start"
    /\ def = "bloom"
    /\ false_positive_rate = Rate(1, 2)
    /\ expected_item_count = 0
    /\ n_hashes = 0
    /\ n_bits = 0
    /\ bit_set = {}
    /\ states = <<>>
    /\ inserted = {}
    /\ built = [n_hashes |-> 0, n_bits |-> 0]
    /\ last = NoOp
    /\ computed = [v \in Values |-> {}]

\* mutant: new that builds the hashers from 1..n_hashes, one too few
new_one_hasher_short(d, rate, count, key) ==
    /\ pc = "start"
    /\ LET hashes == get_hash_count(rate)
           bits == IF d = "bloom" THEN get_bit_count(hashes, count)
                   ELSE get_bit_count_main(hashes, count)
       IN /\ n_hashes' = hashes
          /\ n_bits' = bits
          /\ bit_set' = {}
          /\ states' = [i \in 1 .. hashes - 1 |-> key + i - 1]
          /\ built' = [n_hashes |-> hashes, n_bits |-> bits]
    /\ def' = d
    /\ false_positive_rate' = rate
    /\ expected_item_count' = count
    /\ inserted' = {}
    /\ last' = [op |-> "new", value |-> 0, result |-> "filter"]
    /\ computed' = [v \in Values |-> {}]
    /\ pc' = "ready"

\* BloomFilter::new of the definition d; key is the thread's first random key
new(d, rate, count, key) ==
    /\ pc = "start"
    /\ LET hashes == get_hash_count(rate)
           bits == IF d = "bloom" THEN get_bit_count(hashes, count)
                   ELSE get_bit_count_main(hashes, count)
       IN /\ n_hashes' = hashes
          /\ n_bits' = bits
          /\ bit_set' = {}
          /\ states' = [i \in 1 .. hashes |-> key + i - 1]
          /\ built' = [n_hashes |-> hashes, n_bits |-> bits]
    /\ def' = d
    /\ false_positive_rate' = rate
    /\ expected_item_count' = count
    /\ inserted' = {}
    /\ last' = [op |-> "new", value |-> 0, result |-> "filter"]
    /\ computed' = [v \in Values |-> {}]
    /\ pc' = "ready"

\* mutant: put that skips the first hasher
put_skips_hasher(value) ==
    /\ pc = "ready"
    /\ IF Panics
       THEN /\ pc' = "panicked"
            /\ last' = [op |-> "put", value |-> value, result |-> "panic"]
            /\ UNCHANGED <<bit_set, inserted>>
       ELSE /\ LET bits == get_bits(states, value, n_bits)
               IN bit_set' = bit_set \cup {bits[i] : i \in 2 .. Len(bits)}
            /\ inserted' = inserted \cup {value}
            /\ last' = [op |-> "put", value |-> value,
                        result |-> IF value \in inserted THEN "again" ELSE "first"]
            /\ pc' = pc
    /\ computed' = yielded(value)
    /\ UNCHANGED <<def, false_positive_rate, expected_item_count,
                   n_hashes, n_bits, states, built>>

\* mutant: put that starts from a cleared bit array
put_clears_first(value) ==
    /\ pc = "ready"
    /\ IF Panics
       THEN /\ pc' = "panicked"
            /\ last' = [op |-> "put", value |-> value, result |-> "panic"]
            /\ UNCHANGED <<bit_set, inserted>>
       ELSE /\ bit_set' = Range(get_bits(states, value, n_bits))
            /\ inserted' = inserted \cup {value}
            /\ last' = [op |-> "put", value |-> value,
                        result |-> IF value \in inserted THEN "again" ELSE "first"]
            /\ pc' = pc
    /\ computed' = yielded(value)
    /\ UNCHANGED <<def, false_positive_rate, expected_item_count,
                   n_hashes, n_bits, states, built>>

\* mutant: put that flips the bits of the value instead of setting them
put_toggles(value) ==
    /\ pc = "ready"
    /\ IF Panics
       THEN /\ pc' = "panicked"
            /\ last' = [op |-> "put", value |-> value, result |-> "panic"]
            /\ UNCHANGED <<bit_set, inserted>>
       ELSE /\ LET bits == Range(get_bits(states, value, n_bits))
               IN bit_set' = (bit_set \ bits) \cup (bits \ bit_set)
            /\ inserted' = inserted \cup {value}
            /\ last' = [op |-> "put", value |-> value,
                        result |-> IF value \in inserted THEN "again" ELSE "first"]
            /\ pc' = pc
    /\ computed' = yielded(value)
    /\ UNCHANGED <<def, false_positive_rate, expected_item_count,
                   n_hashes, n_bits, states, built>>

put(value) ==
    /\ pc = "ready"
    /\ IF Panics
       THEN /\ pc' = "panicked"
            /\ last' = [op |-> "put", value |-> value, result |-> "panic"]
            /\ UNCHANGED <<bit_set, inserted>>
       ELSE /\ bit_set' = bit_set \cup Range(get_bits(states, value, n_bits))
            /\ inserted' = inserted \cup {value}
            /\ last' = [op |-> "put", value |-> value,
                        result |-> IF value \in inserted THEN "again" ELSE "first"]
            /\ pc' = pc
    /\ computed' = yielded(value)
    /\ UNCHANGED <<def, false_positive_rate, expected_item_count,
                   n_hashes, n_bits, states, built>>

\* mutant: contains that inserts the bits it tests
contains_inserts(value) ==
    /\ pc = "ready"
    /\ IF Panics
       THEN /\ pc' = "panicked"
            /\ last' = [op |-> "contains", value |-> value, result |-> "panic"]
            /\ UNCHANGED bit_set
       ELSE /\ last' = [op |-> "contains", value |-> value,
                        result |-> \A bit \in Range(get_bits(states, value, n_bits)) :
                                       bit \in bit_set]
            /\ bit_set' = bit_set \cup Range(get_bits(states, value, n_bits))
            /\ pc' = pc
    /\ computed' = yielded(value)
    /\ UNCHANGED <<def, false_positive_rate, expected_item_count,
                   n_hashes, n_bits, states, inserted, built>>

\* mutant: contains with any in place of all
contains_any(value) ==
    /\ pc = "ready"
    /\ IF Panics
       THEN /\ pc' = "panicked"
            /\ last' = [op |-> "contains", value |-> value, result |-> "panic"]
       ELSE /\ last' = [op |-> "contains", value |-> value,
                        result |-> \E bit \in Range(get_bits(states, value, n_bits)) :
                                       bit \in bit_set]
            /\ pc' = pc
    /\ computed' = yielded(value)
    /\ UNCHANGED <<def, false_positive_rate, expected_item_count,
                   n_hashes, n_bits, bit_set, states, inserted, built>>

contains(value) ==
    /\ pc = "ready"
    /\ IF Panics
       THEN /\ pc' = "panicked"
            /\ last' = [op |-> "contains", value |-> value, result |-> "panic"]
       ELSE /\ last' = [op |-> "contains", value |-> value,
                        result |-> \A bit \in Range(get_bits(states, value, n_bits)) :
                                       bit \in bit_set]
            /\ pc' = pc
    /\ computed' = yielded(value)
    /\ UNCHANGED <<def, false_positive_rate, expected_item_count,
                   n_hashes, n_bits, bit_set, states, inserted, built>>

\* the accessor n_hashes() of bloom.rs
get_n_hashes ==
    /\ pc = "ready"
    /\ def = "bloom"
    /\ last' = [op |-> "n_hashes", value |-> 0, result |-> n_hashes]
    /\ UNCHANGED <<pc, def, false_positive_rate, expected_item_count, computed,
                   n_hashes, n_bits, bit_set, states, inserted, built>>

\* mutant: n_bits() that returns the other field
get_n_bits_other_field ==
    /\ pc = "ready"
    /\ def = "bloom"
    /\ last' = [op |-> "n_bits", value |-> 0, result |-> n_hashes]
    /\ UNCHANGED <<pc, def, false_positive_rate, expected_item_count, computed,
                   n_hashes, n_bits, bit_set, states, inserted, built>>

\* the accessor n_bits() of bloom.rs
get_n_bits ==
    /\ pc = "ready"
    /\ def = "bloom"
    /\ last' = [op |-> "n_bits", value |-> 0, result |-> n_bits]
    /\ UNCHANGED <<pc, def, false_positive_rate, expected_item_count, computed,
                   n_hashes, n_bits, bit_set, states, inserted, built>>

Next ==
    \/ \E d \in Defs, rate \in Rates, count \in Counts, key \in Keys :
           new(d, rate, count, key)
    \/ \E value \in Values : put(value)
    \/ \E value \in Values : contains(value)
    \/ get_n_hashes
    \/ get_n_bits

Spec == Init /\ [][Next]_vars

\* ---- what the claims speak of

\* the index the i-th hasher gives value: hash_i(value) mod bit_count
Index(value, i) == hash(value, states[i]) % n_bits

RECURSIVE Pow2(_)
Pow2(j) == IF j = 0 THEN 1 ELSE 2 * Pow2(j - 1)

TenPercent == Rate(1, 10)

\* C1: no false negatives: once put(v) has returned, every bit of v is set,
\* so contains(v) is true in that state and in every later one, and every
\* contains(v) that is called returns true, whatever else was inserted.
C1_NoFalseNegatives ==
    pc = "ready" =>
        /\ \A v \in inserted : \A i \in 1 .. n_hashes : Index(v, i) \in bit_set
        /\ (last.op = "contains" /\ last.value \in inserted) => last.result = TRUE

C1_Witness ==
    /\ pc = "ready"
    /\ n_hashes >= 2
    /\ Cardinality(inserted) >= 2
    /\ inserted # Values
    /\ last.op = "contains"
    /\ last.value \in inserted
    /\ last.result = TRUE

\* C2: new with a rate outside (0,1) fails with InvalidArgument and yields no
\* filter.
C2_NewRejectsInvalidRate ==
    (pc # "start" /\ ~ValidRate(false_positive_rate)) =>
        (pc = "failed" /\ last.result = "InvalidArgument")

\* C3 as the spec states it: for every rate p in (0,1), hash_count is
\* ceil(-log2(p)), that is 2^-hash_count <= p < 2^-(hash_count - 1); and
\* new(0.1, 100) yields hash_count 4 and bit_count 5760.
C3_HashCountCeilOfNegLog ==
    (pc # "start" /\ ValidRate(false_positive_rate)) =>
        /\ false_positive_rate.num * Pow2(n_hashes) >= false_positive_rate.den
        /\ n_hashes >= 1
        /\ false_positive_rate.num * Pow2(n_hashes - 1) < false_positive_rate.den
        /\ (false_positive_rate = TenPercent /\ expected_item_count = DemoCount) =>
               (n_hashes = 4 /\ n_bits = 5760)

\* C3 as amended: for every rate p in (0,1), hash_count is -ceil(log2(p)),
\* the floor of -log2(p): 2^-(hash_count + 1) < p <= 2^-hash_count; and
\* new(0.1, 100) yields hash_count 3, and in bloom.rs bit_count 4320.
C3_HashCountNegOfCeilLog ==
    (pc # "start" /\ ValidRate(false_positive_rate)) =>
        /\ false_positive_rate.num * Pow2(n_hashes) <= false_positive_rate.den
        /\ false_positive_rate.num * Pow2(n_hashes + 1) > false_positive_rate.den
        /\ (false_positive_rate = TenPercent /\ expected_item_count = DemoCount) =>
               (n_hashes = 3 /\ (def = "bloom" => n_bits = 4320))

C3_Witness ==
    /\ pc = "ready"
    /\ def = "bloom"
    /\ false_positive_rate = TenPercent
    /\ expected_item_count = DemoCount
    /\ n_hashes = 3
    /\ n_bits = 4320

\* C4: the filter of bloom.rs built by new(0.1, 100) reports n_hashes() = 3 and
\* n_bits() = 4320, and on every filter the accessors return the values
\* computed at construction, whatever was inserted since.
C4_AccessorsReportConstruction ==
    /\ last.op = "n_hashes" =>
           /\ last.result = built.n_hashes
           /\ (false_positive_rate = TenPercent /\ expected_item_count = DemoCount)
                  => last.result = 3
    /\ last.op = "n_bits" =>
           /\ last.result = built.n_bits
           /\ (false_positive_rate = TenPercent /\ expected_item_count = DemoCount)
                  => last.result = 4320

C4_Witness ==
    /\ false_positive_rate = TenPercent
    /\ expected_item_count = DemoCount
    /\ inserted # {}
    /\ last.op = "n_bits"
    /\ last.result = 4320

\* C5: in every BloomFilter definition of the repository, bit_count is
\* floor(n * 14.4 * hash_count), that is floor(n * 144 * hash_count / 10).
C5_BitCountFormula ==
    pc # "start" => n_bits = (expected_item_count * 144 * n_hashes) \div 10

\* C6: a filter built with a rate in (0,1) and any expected_item_count has
\* hash_count >= 1 and bit_count >= 1.
C6_PositiveCounts ==
    (pc # "start" /\ ValidRate(false_positive_rate)) => (n_hashes >= 1 /\ n_bits >= 1)

\* C7: on a filter built with a rate in (0,1), put and contains never panic.
C7_PutContainsTotal ==
    ValidRate(false_positive_rate) => pc # "panicked"

\* C8: a filter (built with a rate in (0,1)) on which put was never called
\* returns false from contains for every value.
C8_EmptyFilterContainsNothing ==
    (pc = "ready" /\ ValidRate(false_positive_rate) /\ inserted = {}
        /\ last.op = "contains") => last.result = FALSE

\* C9: put(v) on a state where v was already inserted leaves the bit array as
\* it is, so that put(v) twice is put(v) once.
C9_PutIdempotent ==
    [][(last'.op = "put" /\ last'.result = "again") => bit_set' = bit_set]_vars

C9_Witness ==
    /\ pc = "ready"
    /\ last.op = "put"
    /\ last.result = "again"
    /\ Cardinality(bit_set) >= 2
    /\ Cardinality(inserted) >= 2

\* C10: contains(v) returns true iff each of the hash_count bits at
\* hash_i(v) mod bit_count is set, and false iff one of them is unset; they
\* are the bits put(v) sets.
C10_ContainsIffAllBitsSet ==
    pc = "ready" =>
        /\ last.op = "contains" =>
               /\ last.result = TRUE <=>
                      \A i \in 1 .. n_hashes : Index(last.value, i) \in bit_set
               /\ last.result = FALSE <=>
                      \E i \in 1 .. n_hashes : Index(last.value, i) \notin bit_set
        /\ last.op = "put" =>
               \A i \in 1 .. n_hashes : Index(last.value, i) \in bit_set

\* contains answers false with one bit of the value set and another unset
C10_Witness ==
    /\ pc = "ready"
    /\ last.op = "contains"
    /\ last.result = FALSE
    /\ \E i, j \in 1 .. n_hashes :
           /\ Index(last.value, i) \in bit_set
           /\ Index(last.value, j) \notin bit_set

\* C11: contains is a pure query: a contains call, whatever it returns, leaves
\* the bit array, hash_count, bit_count and the hashers as they were.
C11_ContainsIsPure ==
    [][last'.op = "contains" =>
           /\ bit_set' = bit_set
           /\ n_hashes' = n_hashes
           /\ n_bits' = n_bits
           /\ states' = states]_vars

C11_Witness ==
    /\ pc = "ready"
    /\ last.op = "contains"
    /\ last.result = FALSE
    /\ last.value \notin inserted
    /\ bit_set # {}
    /\ n_hashes >= 2

\* C12: a bit that is set stays set: no step of new, put, contains or the
\* accessors clears a bit.
C12_BitsMonotone ==
    [][bit_set \subseteq bit_set']_vars

\* a put of a new value has left the bits of an earlier value set
C12_Witness ==
    /\ pc = "ready"
    /\ n_hashes >= 2
    /\ last.op = "put"
    /\ last.result = "first"
    /\ \E v \in inserted \ {last.value} :
           /\ \A i \in 1 .. n_hashes : Index(v, i) \in bit_set
           /\ \E i \in 1 .. n_hashes :
                  \A j \in 1 .. n_hashes : Index(v, i) # Index(last.value, j)

\* C13: determinism of indexing: for a filter and a value, every computation
\* of the indices, in put or in contains, before or after other calls,
\* yields one and the same sequence: hash_count indices, the i-th being
\* hash_i(value) mod bit_count for the i-th hasher.
C13_IndexingDeterministic ==
    \A v \in Values :
        /\ Cardinality(computed[v]) <= 1
        /\ \A s \in computed[v] :
               /\ Len(s) = n_hashes
               /\ \A i \in 1 .. n_hashes : s[i] = hash(v, states[i]) % n_bits

\* the indices of a value were computed by a put and, after a put of
\* another value, by a contains
C13_Witness ==
    /\ pc = "ready"
    /\ n_hashes >= 2
    /\ Cardinality(inserted) >= 2
    /\ last.op = "contains"
    /\ last.value \in inserted
    /\ computed[last.value] # {}
    /\ \A v \in Values : computed[v] # {}

\* C15: fixed parameters: after every step the filter has hash_count hashers,
\* hash_count and bit_count are the values new computed and every set bit
\* lies within the bit_count bits allocated; and no step after new (put
\* included) changes hash_count, bit_count or the hashers.
C15_FixedParameters ==
    [][/\ Len(states') = n_hashes'
       /\ n_hashes' = built'.n_hashes
       /\ n_bits' = built'.n_bits
       /\ \A bit \in bit_set' : bit >= 0 /\ bit < n_bits'
       /\ pc # "start" =>
              /\ n_hashes' = n_hashes
              /\ n_bits' = n_bits
              /\ states' = states
              /\ built' = built]_vars

C15_Witness ==
    /\ pc = "ready"
    /\ n_hashes >= 2
    /\ Len(states) = n_hashes
    /\ n_bits = built.n_bits
    /\ last.op = "put"
    /\ Cardinality(inserted) >= 2
    /\ bit_set # {}

\* C16: the set bits are exactly the indices hash_i(v) mod bit_count,
\* 1 <= i <= hash_count, of the values v put so far: each lies below
\* bit_count, a put sets nothing outside the indices of its value, and the
\* bit array depends on the set of values put, not on their order.
C16_BitsAreUnionOfIndices ==
    /\ bit_set = UNION {{Index(v, i) : i \in 1 .. n_hashes} : v \in inserted}
    /\ \A bit \in bit_set : bit >= 0 /\ bit < n_bits

\* several values put, two of their indices falling on one bit
C16_Witness ==
    /\ pc = "ready"
    /\ n_hashes >= 2
    /\ Cardinality(inserted) >= 2
    /\ last.op = "put"
    /\ bit_set # {}
    /\ Cardinality(bit_set) < n_hashes * Cardinality(inserted)

\* the answer contains(v) gives in the current state
Answer(v) == \A i \in 1 .. n_hashes : Index(v, i) \in bit_set

\* C17: answers only ever turn positive: for every value v, inserted or not,
\* if contains(v) answers true in a state (or has just returned true), then
\* it answers true after the next step, and a contains(v) made by that step
\* returns true.
C17_AnswersOnlyTurnPositive ==
    [][(pc = "ready" /\ pc' = "ready" /\ ~Panics) =>
           \A v \in Values :
               (\/ Answer(v)
                \/ (last.op = "contains" /\ last.value = v /\ last.result = TRUE))
               => /\ Answer(v)'
                  /\ (last'.op = "contains" /\ last'.value = v)
                         => last'.result = TRUE]_vars

\* a false positive: contains returns true for a value never put, after puts
C17_Witness ==
    /\ pc = "ready"
    /\ n_hashes >= 2
    /\ inserted # {}
    /\ last.op = "contains"
    /\ last.value \notin inserted
    /\ last.result = TRUE

\* the negated ceiling of log2 of the rate is not positive: the rate is above
\* 1/2 (every rate >= 1 is), or it is negative and the logarithm is NaN
NotPositive(r) == r.num < 0 \/ 2 * r.num > r.den

\* C18: new never returns an error; when the negated ceiling of log2 of the
\* rate is not positive (any rate >= 1) the filter has hash_count 0,
\* bit_count 0 and no hasher, put sets no bit on it and contains returns true
\* for every value, on the fresh filter too.
C18_DegenerateFilter ==
    /\ last.op = "new" => last.result = "filter"
    /\ (pc # "start" /\ NotPositive(false_positive_rate)) =>
           /\ pc = "ready"
           /\ n_hashes = 0
           /\ n_bits = 0
           /\ states = <<>>
           /\ bit_set = {}
           /\ last.op = "contains" => last.result = TRUE

\* a rate >= 1: a put has set no bit, and contains has returned true
C18_Witness ==
    /\ pc = "ready"
    /\ false_positive_rate.num >= false_positive_rate.den
    /\ inserted # {}
    /\ inserted # Values
    /\ bit_set = {}
    /\ last.op = "contains"
    /\ last.value \notin inserted
    /\ last.result = TRUE

====
